---- MODULE Spec2Model ----
(***************************************************************************)
(* A model of plotext's bar and histogram helpers                          *)
(* (src/plotext/_utility/bar.py): update_bars, update_bar_xlim,            *)
(* update_bar_ylim, bars and hist_data.                                    *)
(*                                                                         *)
(* Data representation                                                     *)
(*   - an element of an x batch is a record [t, n, s]: t = "int" is a      *)
(*     Python int n, t = "str" is a Python str s, t = "obj" is an object   *)
(*     that is neither and whose str() raises (a list nested deeper than   *)
(*     the recursion limit: str() of it raises RecursionError);            *)
(*   - the bar dictionary is the sequence of its items [k, v] in           *)
(*     insertion order (a Python dict keeps insertion order);              *)
(*   - a Python float is an IEEE double [z, neg, m, e] and every float     *)
(*     operation of the code (/, *, +, -, int()) is the correctly rounded  *)
(*     double operation; a number that may be an int or a float is a       *)
(*     record [int, i, f]: the int i when int, else the float f;           *)
(*   - None is <<>> and a present value v is <<v>> where a list may        *)
(*     hold None;                                                          *)
(*   - what a call gives back is a record whose field exc is "" for a      *)
(*     normal return and the exception's name when the call raises.        *)
(***************************************************************************)
EXTENDS Integers, Sequences, FiniteSets, TLC

VARIABLES registry, pc, arg, ret

vars == <<registry, pc, arg, ret>>

(***************************************************************************)
(* Bounds of the model.                                                    *)
(***************************************************************************)
MaxLen == 2

(***************************************************************************)
(* Elements of an x batch.                                                 *)
(***************************************************************************)
IntEl(n) == [t |-> "int", n |-> n, s |-> ""]

StrEl(s) == [t |-> "str", n |-> 0, s |-> s]

ObjEl == [t |-> "obj", n |-> 0, s |-> ""]

Elements == {IntEl(1), StrEl("a"), StrEl("b"), StrEl("1"), ObjEl}

SeqsUpTo(S, n) == UNION {[1..k -> S] : k \in 0..n}

Batches == SeqsUpTo(Elements, MaxLen)

(***************************************************************************)
(* The bar dictionary: Python dict operations on the item sequence.        *)
(***************************************************************************)
Keys(d) == {d[i].k : i \in 1..Len(d)}

Contains(d, el) == \E i \in 1..Len(d) : d[i].k = el

Get(d, el) == d[CHOOSE i \in 1..Len(d) : d[i].k = el].v

DictUpdate(d, el, i) ==
    IF Contains(d, el)
        THEN [j \in 1..Len(d) |-> IF d[j].k = el THEN [k |-> el, v |-> i] ELSE d[j]]
        ELSE Append(d, [k |-> el, v |-> i])

(***************************************************************************)
(* update_bars                                                             *)
(***************************************************************************)
\* a variant of line 9 that counts a number as a label too
labelled_of_str_or_int(x) == \E i \in 1..Len(x) : x[i].t \in {"str", "int"}

\* line 9: any([type(el) == str for el in x])
labelled_of(x) == \E i \in 1..Len(x) : x[i].t = "str"

\* str(el) raises for the over-deep object
StrRaises(el) == el.t = "obj"

\* str(el): the element's string form
Str(el) == IF el.t = "str" THEN el.s ELSE ToString(el.n)

\* get_labels(x, "linear"): the tick labels of a numeric batch; a value that
\* is no number is surfaced as a failure
get_labels_raises(x) == \E i \in 1..Len(x) : x[i].t # "int"

get_labels(x) == [i \in 1..Len(x) |-> ToString(x[i].n)]

\* a variant of line 19 that forgets the + 1
next_position_len(d) == Len(d)

\* line 19: the position a new label gets
next_position(d) == Len(d) + 1

\* a variant of line 16 that never finds the label
in_bars_never(d, el) == FALSE

\* line 16: el in bars
in_bars(d, el) == Contains(d, el)

\* lines 15-22: the loop over xlabels from index i on; gives <<xn, bars>>
RECURSIVE label_loop(_, _, _, _)
label_loop(xlabels, i, xn, d) ==
    IF i > Len(xlabels) THEN <<xn, d>>
    ELSE LET el == xlabels[i] IN
         IF in_bars(d, el)
            THEN label_loop(xlabels, i + 1, Append(xn, IntEl(Get(d, el))), d)
            ELSE LET p == next_position(d) IN
                 label_loop(xlabels, i + 1, Append(xn, IntEl(p)), DictUpdate(d, el, p))

\* the call raises: nothing is returned, the dictionary is as the call left it
Raised(name, d) == [exc |-> name, x |-> <<>>, xlabels |-> <<>>, labelled |-> FALSE, bars |-> d]

Returned(x, xlabels, labelled, d) ==
    [exc |-> "", x |-> x, xlabels |-> xlabels, labelled |-> labelled, bars |-> d]

\* a variant converting each element to its string form inside the loop, so
\* that a conversion failure leaves the labels before it inserted
RECURSIVE lazy_loop(_, _, _, _)
lazy_loop(x, i, xn, d) ==
    IF i > Len(x) THEN Returned(xn, [j \in 1..Len(x) |-> Str(x[j])], TRUE, d)
    ELSE IF StrRaises(x[i]) THEN Raised("RecursionError", d)
    ELSE LET el == Str(x[i]) IN
         IF Contains(d, el)
            THEN lazy_loop(x, i + 1, Append(xn, IntEl(Get(d, el))), d)
            ELSE lazy_loop(x, i + 1, Append(xn, IntEl(Len(d) + 1)),
                           DictUpdate(d, el, Len(d) + 1))

update_bars_lazy(x, d) ==
    IF ~ (\E i \in 1..Len(x) : x[i].t = "str")
        THEN IF get_labels_raises(x) THEN Raised("TypeError", d)
             ELSE Returned(x, get_labels(x), FALSE, d)
        ELSE lazy_loop(x, 1, <<>>, d)

\* lines 8-23; the offset parameter is never read
update_bars(x, d) ==
    IF ~ labelled_of(x)
        THEN IF get_labels_raises(x) THEN Raised("TypeError", d)
             ELSE Returned(x, get_labels(x), FALSE, d)
    ELSE IF \E i \in 1..Len(x) : StrRaises(x[i])
        THEN Raised("RecursionError", d)
    ELSE LET xlabels == [i \in 1..Len(x) |-> Str(x[i])]
             r       == label_loop(xlabels, 1, <<>>, d)
         IN  Returned(r[1], xlabels, TRUE, r[2])

(***************************************************************************)
(* The label resolver as a state machine: the caller keeps one bar         *)
(* dictionary, created empty, and hands it to every update_bars call.      *)
(***************************************************************************)
NoReturn == Returned(<<>>, <<>>, FALSE, <<>>)

Init ==
    /\ registry = <<>>
    /\ pc = "new"
    /\ arg = <<>>
    /\ ret = NoReturn

CallUpdateBars ==
    \E x \in Batches :
        LET r == update_bars(x, registry) IN
        /\ registry' = r.bars
        /\ pc' = "update_bars"
        /\ arg' = x
        /\ ret' = r

Next == CallUpdateBars

Spec == Init /\ [][Next]_vars

(***************************************************************************)
(* Properties of the label resolver.                                       *)
(***************************************************************************)
\* the index of the first occurrence of e in the sequence s
FirstIdx(s, e) == CHOOSE i \in 1..Len(s) : s[i] = e /\ \A j \in 1..(i - 1) : s[j] # e

\* the position registry d gives the label l
PositionOf(d, l) == d[CHOOSE i \in 1..Len(d) : d[i].k = l].v

AllInt(x) == \A i \in 1..Len(x) : x[i].t = "int"

AllIntOrStr(x) == \A i \in 1..Len(x) : x[i].t \in {"int", "str"}

SomeStr(x) == \E i \in 1..Len(x) : x[i].t = "str"

\* the positions are exactly 1..N, the i-th label inserted holding i, and no
\* label is held twice
RegistryDense ==
    /\ \A i \in 1..Len(registry) : registry[i].v = i
    /\ \A i, j \in 1..Len(registry) : registry[i].k = registry[j].k => i = j

\* a call keeps every item of the registry where it is, and appends the labels
\* it has not seen in the order of their first occurrence in the batch
RegistryGrowsInOrder ==
    /\ Len(registry') >= Len(registry)
    /\ \A i \in 1..Len(registry) : registry'[i] = registry[i]
    /\ \A i \in (Len(registry) + 1)..Len(registry') :
          /\ \E j \in 1..Len(arg') : arg'[j].t # "obj" /\ Str(arg'[j]) = registry'[i].k
          /\ \A h \in (Len(registry) + 1)..(i - 1) :
                FirstIdx(ret'.xlabels, registry'[h].k) < FirstIdx(ret'.xlabels, registry'[i].k)

\* C1: starting from an empty registry, after any sequence of update_bars
\* calls the registry's positions are exactly 1..N for its N labels, assigned
\* in first-seen order; a label in the registry keeps its position in every
\* later state and no label is ever removed.
C1_RegistryPositions == [] RegistryDense /\ [][RegistryGrowsInOrder]_vars

\* a call has appended two new labels, at positions 2 and 3, to a registry
\* that held one label
C1_Witness ==
    /\ pc = "update_bars"
    /\ Len(registry) = 3
    /\ ret.labelled
    /\ ret.x = <<IntEl(2), IntEl(3)>>

\* the labels of the batch that the registry d does not hold and whose first
\* occurrence in xlabels is before index i
NewBefore(d, xlabels, i) ==
    {xlabels[j] : j \in {h \in 1..(i - 1) : xlabels[h] \notin Keys(d)}}

\* what a call on a batch of numbers and strings, one of them a string, returns
LabelledReturn ==
    (pc' = "update_bars" /\ SomeStr(arg') /\ AllIntOrStr(arg')) =>
        /\ ret'.exc = ""
        /\ ret'.labelled = TRUE
        /\ Len(ret'.xlabels) = Len(arg') /\ Len(ret'.x) = Len(arg')
        /\ \A i \in 1..Len(arg') :
              /\ ret'.xlabels[i] = (IF arg'[i].t = "str" THEN arg'[i].s ELSE ToString(arg'[i].n))
              /\ ret'.x[i].t = "int"
              /\ ret'.x[i].n = PositionOf(registry', ret'.xlabels[i])
              /\ ret'.x[i].n =
                    IF ret'.xlabels[i] \in Keys(registry)
                        THEN PositionOf(registry, ret'.xlabels[i])
                        ELSE Len(registry)
                             + Cardinality(NewBefore(registry, ret'.xlabels,
                                                     FirstIdx(ret'.xlabels, ret'.xlabels[i])))
                             + 1

\* C2: when at least one element of the batch is a string, update_bars
\* reports the series as labelled, uses the string form of every element as
\* its label, and returns coordinates of the input's length and order where
\* coordinate i is the registry position of label i: the stored position if
\* the label was present, otherwise the registry size at insertion plus one.
C2_LabelledCoordinates == [][LabelledReturn]_vars

\* the batch [1, "1"] on a registry that held one other label: the number and
\* the string share the label "1" and the position 2
C2_Witness ==
    /\ pc = "update_bars"
    /\ arg = <<IntEl(1), StrEl("1")>>
    /\ ret.x = <<IntEl(2), IntEl(2)>>
    /\ ret.xlabels = <<"1", "1">>
    /\ Len(registry) = 2

NumericReturn ==
    (pc' = "update_bars" /\ AllInt(arg')) =>
        /\ ret'.exc = ""
        /\ ret'.x = arg'
        /\ ret'.labelled = FALSE
        /\ registry' = registry

\* C3: when every element of the batch is numeric (the empty batch included),
\* update_bars returns the input values as coordinates, reports the series as
\* not labelled and leaves the registry unchanged, whatever it held.
C3_NumericPassthrough == [][NumericReturn]_vars

\* a numeric batch was resolved against a registry that holds the label "1"
C3_Witness ==
    /\ pc = "update_bars"
    /\ arg = <<IntEl(1), IntEl(1)>>
    /\ ret.x = arg
    /\ ~ ret.labelled
    /\ "1" \in Keys(registry)

FailedCallKeepsRegistry ==
    (pc' = "update_bars" /\ ret'.exc # "") => registry' = registry

\* C9: label resolution is all-or-nothing: a failed update_bars call leaves
\* the registry exactly as it was before the call.
C9_AllOrNothing == [][FailedCallKeepsRegistry]_vars

\* a call failed on a batch whose first label the registry does not hold
C9_Witness ==
    /\ pc = "update_bars"
    /\ ret.exc = "RecursionError"
    /\ arg[1].t = "str"
    /\ arg[1].s \notin Keys(registry)

(***************************************************************************)
(* Small helpers.                                                          *)
(***************************************************************************)
Abs(a) == IF a < 0 THEN -a ELSE a

Max2(a, b) == IF a < b THEN b ELSE a

Min2(a, b) == IF a < b THEN a ELSE b

SetMin(S) == CHOOSE v \in S : \A w \in S : v <= w

SetMax(S) == CHOOSE v \in S : \A w \in S : w <= v

Range(q) == {q[i] : i \in 1..Len(q)}

(***************************************************************************)
(* Naturals of any size, as the sequence of their digits of 13 bits, most  *)
(* significant first (leading zeros allowed): the exact values that double *)
(* arithmetic rounds.                                                      *)
(***************************************************************************)
Radix == 2^13

\* the digits of the int v >= 0
RECURSIVE NatDigits(_)
NatDigits(v) == IF v < Radix THEN <<v>> ELSE NatDigits(v \div Radix) \o <<v % Radix>>

\* the digits d with zeros in front, n digits in all
NatPad(d, n) == [i \in 1..(n - Len(d)) |-> 0] \o d

NatIsZero(d) == \A i \in 1..Len(d) : d[i] = 0

\* digit k of d, digit 0 the least significant; 0 beyond the first digit
NatDigit(d, k) == IF k < Len(d) THEN d[Len(d) - k] ELSE 0

\* a + b from digit i up with the carry of the digits below, Len(a) = Len(b)
RECURSIVE DigitsPlus(_, _, _, _)
DigitsPlus(a, b, i, carry) ==
    IF i = 0 THEN <<carry>>
    ELSE LET t == a[i] + b[i] + carry
         IN  DigitsPlus(a, b, i - 1, t \div Radix) \o <<t % Radix>>

NatPlus(a, b) ==
    LET n == Max2(Len(a), Len(b)) IN DigitsPlus(NatPad(a, n), NatPad(b, n), n, 0)

\* a - b from digit i up with the borrow of the digits below, Len(a) = Len(b)
RECURSIVE DigitsMinus(_, _, _, _)
DigitsMinus(a, b, i, borrow) ==
    IF i = 0 THEN <<>>
    ELSE LET t == a[i] - b[i] - borrow
         IN  DigitsMinus(a, b, i - 1, IF t < 0 THEN 1 ELSE 0)
                 \o <<IF t < 0 THEN t + Radix ELSE t>>

\* a - b, a >= b
NatMinus(a, b) ==
    LET n == Max2(Len(a), Len(b)) IN DigitsMinus(NatPad(a, n), NatPad(b, n), n, 0)

NatLess(a, b) ==
    LET n  == Max2(Len(a), Len(b))
        pa == NatPad(a, n)
        pb == NatPad(b, n)
    IN  \E i \in 1..n : pa[i] < pb[i] /\ \A j \in 1..(i - 1) : pa[j] = pb[j]

\* the digits of d times the int k, 0 <= k < 2^17, from digit i up with the
\* carry of the digits below
RECURSIVE DigitsTimes(_, _, _, _)
DigitsTimes(d, k, i, carry) ==
    IF i = 0 THEN <<carry>>
    ELSE LET t == d[i] * k + carry
         IN  DigitsTimes(d, k, i - 1, t \div Radix) \o <<t % Radix>>

NatTimes(d, k) == DigitsTimes(d, k, Len(d), 0)

\* a times the first j digits of b
RECURSIVE DigitsProduct(_, _, _)
DigitsProduct(a, b, j) ==
    IF j = 0 THEN <<0>>
    ELSE NatPlus(DigitsProduct(a, b, j - 1) \o <<0>>, NatTimes(a, b[j]))

NatProduct(a, b) == DigitsProduct(a, b, Len(b))

\* d * 2^k, k >= 0
NatShift(d, k) == NatTimes(d, 2^(k % 13)) \o [i \in 1..(k \div 13) |-> 0]

\* the number of bits of the int v >= 0
RECURSIVE BitLength(_)
BitLength(v) == IF v = 0 THEN 0 ELSE 1 + BitLength(v \div 2)

\* the number of bits of d: 0 for zero
NatBits(d) ==
    IF NatIsZero(d) THEN 0
    ELSE LET k == CHOOSE j \in 0..(Len(d) - 1) :
                      NatDigit(d, j) # 0 /\ \A l \in (j + 1)..(Len(d) - 1) : NatDigit(d, l) = 0
         IN  13 * k + BitLength(NatDigit(d, k))

\* the 13 bits of d from bit low up (bit 0 the least significant)
NatField(d, low) ==
    LET c == low \div 13
        r == low % 13
    IN  NatDigit(d, c) \div 2^r + (NatDigit(d, c + 1) % 2^r) * 2^(13 - r)

\* d has a bit set below bit s
NatAnyBelow(d, s) ==
    \/ \E k \in 0..((s \div 13) - 1) : NatDigit(d, k) # 0
    \/ NatDigit(d, s \div 13) % 2^(s % 13) # 0

(***************************************************************************)
(* IEEE doubles (Python floats) and their correctly rounded operations.    *)
(* z says the double is 0.0; otherwise neg is its sign, m holds the 53     *)
(* bits of its significand as five digits of 13 bits (m[1] = 1) and e is   *)
(* the exponent of its first bit: the value is m * 2^(e - 52). Exponents   *)
(* stay far from the subnormal and overflow ranges.                        *)
(***************************************************************************)
FloatZero == [z |-> TRUE, neg |-> FALSE, m |-> <<>>, e |-> 0]

\* the digits d plus one unit in the last place, carrying from digit i up
RECURSIVE DigitsIncrement(_, _)
DigitsIncrement(d, i) ==
    IF i = 1 \/ d[i] + 1 < Radix THEN [d EXCEPT ![i] = d[i] + 1]
    ELSE DigitsIncrement([d EXCEPT ![i] = 0], i - 1)

\* the significand m with exponent e, one unit in the last place added when up
\* (round half to even decided by the caller); 2^53 is renormalised to 2^52
Rounded(neg, m, e, up) ==
    LET r == IF up THEN DigitsIncrement(m, 5) ELSE m IN
    IF r[1] = 2 THEN [z |-> FALSE, neg |-> neg, m |-> <<1, 0, 0, 0, 0>>, e |-> e + 1]
    ELSE [z |-> FALSE, neg |-> neg, m |-> r, e |-> e]

\* the double nearest to d * 2^sc (negated when neg), ties to even: of
\* w = d * 2^53 the first 53 bits stay and the bits below them decide
to_double(neg, d, sc) ==
    LET s == NatBits(d) IN
    IF s = 0 THEN FloatZero
    ELSE LET w == NatShift(d, 53)
             q == <<NatField(w, s + 52), NatField(w, s + 39), NatField(w, s + 26),
                    NatField(w, s + 13), NatField(w, s)>>
             half   == NatField(w, s - 1) % 2 = 1
             sticky == NatAnyBelow(w, s - 1)
         IN  Rounded(neg, q, sc + s - 1, half /\ (sticky \/ q[5] % 2 = 1))

\* float(i) for the int i
float_of_int(i) == to_double(i < 0, NatDigits(Abs(i)), 0)

\* the exponent of the quotient n / d > 0: the e with 2^e <= n / d < 2^(e+1)
RECURSIVE QuotientExponent(_, _, _)
QuotientExponent(n, d, e) ==
    IF n < d THEN QuotientExponent(2 * n, d, e - 1)
    ELSE IF n >= 2 * d THEN QuotientExponent(n, 2 * d, e + 1)
    ELSE e

\* a / b for the ints a >= 0 and b > 0, correctly rounded (round half to
\* even), by long division 13 bits at a time
true_div(a, b) ==
    IF a = 0 THEN FloatZero
    ELSE LET e  == QuotientExponent(a, b, 0)
             n  == IF e < 0 THEN a * 2^(-e) ELSE a
             d  == IF e > 0 THEN b * 2^e ELSE b
             r0 == n - d
             q1 == (r0 * Radix) \div d
             r1 == (r0 * Radix) % d
             q2 == (r1 * Radix) \div d
             r2 == (r1 * Radix) % d
             q3 == (r2 * Radix) \div d
             r3 == (r2 * Radix) % d
             q4 == (r3 * Radix) \div d
             r4 == (r3 * Radix) % d
         IN  Rounded(FALSE, <<1, q1, q2, q3, q4>>, e,
                     2 * r4 > d \/ (2 * r4 = d /\ q4 % 2 = 1))

\* f * g for doubles: the exact product of the significands, rounded
float_mul(f, g) ==
    IF f.z \/ g.z THEN FloatZero
    ELSE to_double(f.neg # g.neg, NatProduct(f.m, g.m), f.e + g.e - 104)

\* f + g for doubles: both as multiples of the unit in the last place of the
\* one with the smaller exponent, the exact sum rounded
float_add(f, g) ==
    IF f.z THEN g
    ELSE IF g.z THEN f
    ELSE LET e0 == Min2(f.e, g.e)
             a  == NatShift(f.m, f.e - e0)
             b  == NatShift(g.m, g.e - e0)
         IN  IF f.neg = g.neg THEN to_double(f.neg, NatPlus(a, b), e0 - 52)
             ELSE IF NatLess(a, b) THEN to_double(g.neg, NatMinus(b, a), e0 - 52)
             ELSE to_double(f.neg, NatMinus(a, b), e0 - 52)

float_neg(f) == IF f.z THEN f ELSE [f EXCEPT !.neg = ~ f.neg]

\* f - g for doubles
float_sub(f, g) == float_add(f, float_neg(g))

\* f / 2 for a double: exact
float_half(f) == IF f.z THEN f ELSE [f EXCEPT !.e = f.e - 1]

\* the int the first n digits of d spell
RECURSIVE DigitsValue(_, _)
DigitsValue(d, n) == IF n = 0 THEN 0 ELSE Radix * DigitsValue(d, n - 1) + d[n]

\* int(f), the double f >= 0 cut to its integer part, for f < 2^30
float_int(f) ==
    IF f.z \/ f.e < 0 THEN 0
    ELSE LET t    == 52 - f.e
             keep == 5 - (t \div 13)
             sb   == t % 13
         IN  DigitsValue(f.m, keep - 1) * 2^(13 - sb) + f.m[keep] \div 2^sb

\* f > 0 for a double
float_positive(f) == ~ f.z /\ ~ f.neg

\* the last n digits of d
NatLast(d, n) ==
    LET p == NatPad(d, Max2(n, Len(d))) IN SubSeq(p, Len(p) - n + 1, Len(p))

\* the digit q with q * d <= r < (q + 1) * d, for r < d * Radix, r of six
\* digits and d of five with d[1] >= 2^12: the quotient of r's first two
\* digits by d[1] is q, q + 1 or q + 2
QuotientDigit(r, d) ==
    LET est == Min2(Radix - 1, (r[1] * Radix + r[2]) \div d[1])
    IN  CHOOSE q \in Max2(est - 2, 0)..est :
            ~ NatLess(r, NatTimes(d, q)) /\ NatLess(r, NatTimes(d, q + 1))

\* the quotient q and the remainder r (five digits) of the first i digits of
\* n by d, by long division
RECURSIVE DigitsDivide(_, _, _)
DigitsDivide(n, d, i) ==
    IF i = 0 THEN [q |-> <<>>, r |-> <<0, 0, 0, 0, 0>>]
    ELSE LET p == DigitsDivide(n, d, i - 1)
             r == p.r \o <<n[i]>>
             q == QuotientDigit(r, d)
         IN  [q |-> Append(p.q, q), r |-> NatLast(NatMinus(r, NatTimes(d, q)), 5)]

\* f / g for doubles, g # 0.0: the significand of f times 2^65 divided by the
\* significand of g (both times 2^12, which gives the divisor a full first
\* digit), the quotient rounded with a last digit that says whether a
\* remainder is left
float_div(f, g) ==
    IF f.z THEN FloatZero
    ELSE LET n == NatTimes(f.m, 2^12) \o <<0, 0, 0, 0, 0>>
             d == NatLast(NatTimes(g.m, 2^12), 5)
             p == DigitsDivide(n, d, Len(n))
         IN  to_double(f.neg # g.neg, p.q \o <<IF NatIsZero(p.r) THEN 0 ELSE 1>>,
                       f.e - g.e - 78)

\* |f| < |g| for doubles that are not 0.0
float_smaller(f, g) == f.e < g.e \/ (f.e = g.e /\ NatLess(f.m, g.m))

\* f < g for doubles
float_less(f, g) ==
    IF f.z THEN ~ g.z /\ ~ g.neg
    ELSE IF g.z THEN f.neg
    ELSE IF f.neg # g.neg THEN f.neg
    ELSE IF f.neg THEN float_smaller(g, f)
    ELSE float_smaller(f, g)

(***************************************************************************)
(* Comparing a double with an exact rational, for the properties.  The     *)
(* rational is N / (d * 2^K), negated when neg, N given by its digits,     *)
(* d > 0 and K >= 0.                                                       *)
(***************************************************************************)
NatDistance(a, b) == IF NatLess(a, b) THEN NatMinus(b, a) ELSE NatMinus(a, b)

NatLessEq(a, b) == ~ NatLess(b, a)

Significand(f) == IF f.z THEN <<0>> ELSE f.m

\* f = Significand(f) * 2^Up(f) / 2^Down(f)
Down(f) == IF f.z THEN 0 ELSE Max2(52 - f.e, 0)

Up(f) == IF f.z THEN 0 ELSE Max2(f.e - 52, 0)

\* the distance of a * (the sign of f) and b * (the sign neg)
SignedDistance(f, a, neg, b) ==
    IF f.z \/ NatIsZero(b) \/ f.neg = neg THEN NatDistance(a, b) ELSE NatPlus(a, b)

\* | f - N / (d * 2^K) | <= T / (d * 2^(K + p)), T given by its digits
Near(f, neg, N, d, K, T, p) ==
    NatLessEq(SignedDistance(f, NatShift(NatTimes(Significand(f), d), Up(f) + K + p),
                             neg, NatShift(N, Down(f) + p)),
              NatShift(T, Down(f)))

\* f is N / (d * 2^K) to within half a unit in the last place of f: no double
\* is nearer to the rational
CorrectlyRounded(f, neg, N, d, K) ==
    IF f.z THEN NatIsZero(N)
    ELSE NatLessEq(SignedDistance(f, NatShift(NatTimes(f.m, d), Up(f) + K + 1),
                                  neg, NatShift(N, Down(f) + 1)),
                   NatShift(NatDigits(d), K + Up(f)))

(***************************************************************************)
(* update_bar_xlim and update_bar_ylim                                     *)
(***************************************************************************)
None == <<>>

Some(v) == <<v>>

\* a limit: the Python int i, or the Python float f
IntNum(i) == [int |-> TRUE, i |-> i, f |-> FloatZero]

FloatNum(f) == [int |-> FALSE, i |-> 0, f |-> f]

\* line 26: the values of y that are not None
NotNone(y) == {y[i][1] : i \in {j \in 1..Len(y) : y[j] # None}}

\* lines 25-28: [min, max] of the values present, [None, None] without any
update_bar_xlim(y) ==
    LET vals == NotNone(y) IN
    IF vals = {} THEN <<None, None>>
    ELSE <<Some(IntNum(SetMin(vals))), Some(IntNum(SetMax(vals)))>>

\* a variant of the test of line 34 that lets the lower limit reach 0
stays_nonnegative(v) == v.z \/ ~ v.neg

\* line 34: bar_lim[0] - delta > 0
stays_positive(v) == float_positive(v)

\* lines 30-35: delta and bar_lim[0] - delta are doubles, each rounded
update_bar_ylim(y) ==
    LET bar_lim == update_bar_xlim(y) IN
    IF bar_lim[1] # None /\ bar_lim[2] # None
        THEN LET lo    == bar_lim[1][1].i
                 hi    == bar_lim[2][1].i
                 delta == true_div(hi - lo, 20)
                 low   == float_sub(float_of_int(lo), delta)
             IN  <<Some(IF stays_positive(low) THEN FloatNum(low) ELSE IntNum(lo)),
                   bar_lim[2]>>
        ELSE bar_lim

(***************************************************************************)
(* The axis limit calculator: one call of either function on a list of     *)
(* values, some of them None.                                              *)
(***************************************************************************)
MaxValues == 3

LimValues == {None, Some(-2), Some(0), Some(1), Some(2), Some(21), Some(41)}

ValueLists == SeqsUpTo(LimValues, MaxValues)

Value(v) == [exc |-> "", val |-> v]

InitLim ==
    /\ registry = <<>>
    /\ pc = "call"
    /\ arg \in [y : ValueLists]
    /\ ret = Value(<<>>)

CallUpdateBarXlim ==
    /\ pc = "call"
    /\ pc' = "update_bar_xlim"
    /\ ret' = Value(update_bar_xlim(arg.y))
    /\ UNCHANGED <<registry, arg>>

CallUpdateBarYlim ==
    /\ pc = "call"
    /\ pc' = "update_bar_ylim"
    /\ ret' = Value(update_bar_ylim(arg.y))
    /\ UNCHANGED <<registry, arg>>

NextLim == CallUpdateBarXlim \/ CallUpdateBarYlim

SpecLim == InitLim /\ [][NextLim]_vars

\* the values of the list y that are not None
Present(y) == {y[i][1] : i \in {j \in 1..Len(y) : Len(y[j]) = 1}}

\* the numerator of min - (max - min) / 20 over the denominator 20
ShrunkTimes20(mn, mx) == 21 * mn - mx

\* the limit q has the value of the int v
IsInt(q, v) ==
    IF q.int THEN q.i = v
    ELSE CorrectlyRounded(q.f, v < 0, NatDigits(Abs(v)), 1, 0)
             /\ Near(q.f, v < 0, NatDigits(Abs(v)), 1, 0, <<0>>, 0)

\* the limit q is greater than 0
IsPositive(q) == IF q.int THEN q.i > 0 ELSE float_positive(q.f)

\* what C8 says of a call whose shrunk lower limit, when it applies, is
\* described by Shrunk(lower limit, min, max)
BaseLimits(Shrunk(_, _, _)) ==
    pc = "update_bar_ylim" =>
        LET vals == Present(arg.y) IN
        /\ ret.exc = ""
        /\ Len(ret.val) = 2
        /\ vals = {} => ret.val = <<None, None>>
        /\ vals # {} =>
              LET mn == SetMin(vals)
                  mx == SetMax(vals)
              IN  /\ Len(ret.val[1]) = 1 /\ Len(ret.val[2]) = 1
                  /\ ret.val[2][1] = IntNum(mx)
                  /\ ShrunkTimes20(mn, mx) > 0 => Shrunk(ret.val[1][1], mn, mx)
                  /\ ShrunkTimes20(mn, mx) <= 0 => ret.val[1][1] = IntNum(mn)
                  /\ mn > 0 => IsPositive(ret.val[1][1])
                  /\ Cardinality(vals) = 1 => (IsInt(ret.val[1][1], mn) /\ IsInt(ret.val[2][1], mn))

\* the lower limit is min - (max - min) / 20 as nearly as a double holds it
ShrunkExactly(q, mn, mx) ==
    ~ q.int /\ CorrectlyRounded(q.f, FALSE, NatDigits(ShrunkTimes20(mn, mx)), 20, 0)

\* the lower limit is a double within min * 2^-51 of min - (max - min) / 20
ShrunkInDoubles(q, mn, mx) ==
    ~ q.int /\ Near(q.f, FALSE, NatDigits(ShrunkTimes20(mn, mx)), 20, 0, NatDigits(20 * mn), 51)

\* C8 as stated: update_bar_ylim ignores None entries and returns
\* (None, None) when no value remains; otherwise upper is the maximum and
\* lower is min - (max - min) / 20 when that is strictly positive, else the
\* minimum; a positive minimum never gives a lower limit <= 0 and a single
\* value v gives (v, v).
C8_ExactLimits == BaseLimits(ShrunkExactly)

\* C8, amended: as above, except that the shrunk lower limit is the result of
\* the two double operations (max - min) / 20 and min - delta, each rounded:
\* a double within min * 2^-51 of min - (max - min) / 20, not always the
\* nearest one.
C8_BaseLimits == BaseLimits(ShrunkInDoubles)

\* update_bar_ylim([41, None, 2]): the lower limit 2 - 1.95 is a positive
\* double that is not the double nearest to 1/20
C8_Witness ==
    /\ pc = "update_bar_ylim"
    /\ arg.y = <<Some(41), None, Some(2)>>
    /\ ~ ret.val[1][1].int
    /\ float_positive(ret.val[1][1].f)
    /\ ~ CorrectlyRounded(ret.val[1][1].f, FALSE, <<1>>, 20, 0)
    /\ ret.val[2][1] = IntNum(41)

(***************************************************************************)
(* bars                                                                    *)
(***************************************************************************)
\* what a call of bars gives back; done counts the bars whose coordinates
\* were appended to both xbar and ybar
BarsResult(exc, val, done) == [exc |-> exc, val |-> val, done |-> done]

\* a variant of line 41 dividing by the number of bars
divisor_bins(bins) == bins

\* line 41: the divisor bins - 1
divisor(bins) == bins - 1

\* line 41: (max(x) - min(x)) / (bins - 1) * width / 2 in doubles, left to
\* right, bins # 1
bin_size_half(x, width) ==
    float_half(float_mul(true_div(SetMax(Range(x)) - SetMin(Range(x)), divisor(Len(x))),
                         width))

\* lines 44-46: x[i] - bin_size_half and x[i] + bin_size_half in doubles
xbar_of(xi, h) ==
    LET l == float_sub(float_of_int(xi), h)
        r == float_add(float_of_int(xi), h)
    IN  <<l, l, r, r, l>>

\* line 47
ybar_of(yi, minimum) == <<minimum, yi, yi, minimum, minimum>>

\* lines 37-48
bars(x, y, width, minimum) ==
    IF x = <<>> THEN BarsResult("", <<<<>>, <<>>>>, 0)
    ELSE LET bins == Len(x) IN
         IF divisor(bins) = 0 THEN BarsResult("ZeroDivisionError", <<>>, 0)
         ELSE LET h == bin_size_half(x, width) IN
              IF Len(y) < bins
                 THEN BarsResult("IndexError", <<>>, Len(y))
                 ELSE BarsResult("", <<[i \in 1..bins |-> xbar_of(x[i], h)],
                                       [i \in 1..bins |-> ybar_of(y[i], minimum)]>>, bins)

(***************************************************************************)
(* The bar geometry generator: one call of bars on centres x, heights y    *)
(* (of any length), a width fraction (a float) and a baseline.             *)
(***************************************************************************)
MaxBars == 3

MaxCoord == 4

Coords == 1..MaxCoord

Heights == {5, 7}

\* the floats 0.8 and 0.5
Widths == {true_div(4, 5), true_div(1, 2)}

Minimums == {0}

InitGeom ==
    /\ registry = <<>>
    /\ pc = "call"
    /\ arg \in [x : SeqsUpTo(Coords, MaxBars), y : SeqsUpTo(Heights, MaxBars),
                width : Widths, minimum : Minimums]
    /\ ret = BarsResult("", <<>>, 0)

CallBars ==
    /\ pc = "call"
    /\ pc' = "bars"
    /\ ret' = bars(arg.x, arg.y, arg.width, arg.minimum)
    /\ UNCHANGED <<registry, arg>>

NextGeom == CallBars

SpecGeom == InitGeom /\ [][NextGeom]_vars

\* the polygon's first and last point are the same
Closed(xs, ys) == Len(xs) = 5 /\ Len(ys) = 5 /\ xs[1] = xs[5] /\ ys[1] = ys[5]

\* The exact c + sign * h for h = (mx - mn) / (n - 1) * width / 2 and the
\* double width = w * 2^-k is
\* (c * 2 * (n - 1) * 2^k + sign * (mx - mn) * w) / (2 * (n - 1) * 2^k):
\* the two terms of its numerator, its sign, its size and the size of
\* |c| + h over the same denominator
CentreTerm(c, n, width) == NatShift(NatDigits(c * 2 * (n - 1)), 52 - width.e)

HalfWidthTerm(mx, mn, width) == NatTimes(width.m, mx - mn)

EdgeNegative(c, sign, mx, mn, n, width) ==
    sign < 0 /\ NatLess(CentreTerm(c, n, width), HalfWidthTerm(mx, mn, width))

EdgeSize(c, sign, mx, mn, n, width) ==
    IF sign < 0 THEN NatDistance(CentreTerm(c, n, width), HalfWidthTerm(mx, mn, width))
    ELSE NatPlus(CentreTerm(c, n, width), HalfWidthTerm(mx, mn, width))

EdgeScale(c, mx, mn, n, width) ==
    NatPlus(CentreTerm(c, n, width), HalfWidthTerm(mx, mn, width))

\* the double q is c + sign * h as nearly as a double holds it
EdgeExactly(q, c, sign, mx, mn, n, width) ==
    CorrectlyRounded(q, EdgeNegative(c, sign, mx, mn, n, width),
                     EdgeSize(c, sign, mx, mn, n, width), 2 * (n - 1), 52 - width.e)

\* the double q is within (c + h) * 2^-50 of c + sign * h
EdgeInDoubles(q, c, sign, mx, mn, n, width) ==
    Near(q, EdgeNegative(c, sign, mx, mn, n, width),
         EdgeSize(c, sign, mx, mn, n, width), 2 * (n - 1), 52 - width.e,
         EdgeScale(c, mx, mn, n, width), 50)

\* what C5 says of a call whose polygon edges are described by
\* Edge(coordinate, c, sign, max, min, n, width)
BarPolygons(Edge(_, _, _, _, _, _, _)) ==
    (pc = "bars" /\ Len(arg.x) = Len(arg.y) /\ Len(arg.x) >= 2) =>
        LET n  == Len(arg.x)
            mx == SetMax(Range(arg.x))
            mn == SetMin(Range(arg.x))
        IN  /\ ret.exc = ""
            /\ Len(ret.val[1]) = n /\ Len(ret.val[2]) = n
            /\ \A i \in 1..n :
                  LET xs == ret.val[1][i]
                      ys == ret.val[2][i]
                  IN  /\ Closed(xs, ys)
                      /\ xs = <<xs[1], xs[1], xs[3], xs[3], xs[1]>>
                      /\ Edge(xs[1], arg.x[i], -1, mx, mn, n, arg.width)
                      /\ Edge(xs[3], arg.x[i], 1, mx, mn, n, arg.width)
                      /\ ys = <<arg.minimum, arg.y[i], arg.y[i], arg.minimum, arg.minimum>>

\* C5 as stated: for x and y of equal length n >= 2, bars returns n polygons
\* in input order, polygon i with x-sequence [c-h, c-h, c+h, c+h, c-h] and
\* y-sequence [minimum, y_i, y_i, minimum, minimum], c = x_i and one shared
\* h = (max(x) - min(x)) / (n - 1) * width / 2; every polygon is closed.
C5_ExactPolygons == BarPolygons(EdgeExactly)

\* C5, amended: as above, except that c - h and c + h are the results of the
\* double operations of lines 41-46, each rounded: doubles within
\* (c + h) * 2^-50 of the exact values, not always the nearest ones.
C5_BarPolygons == BarPolygons(EdgeInDoubles)

\* bars([1,2,3], [5,7,2], 0.8, 0): the first polygon spans 0.6 to 1.4
C5_Witness ==
    /\ pc = "bars"
    /\ arg = [x |-> <<1, 2, 3>>, y |-> <<5, 7, 5>>, width |-> true_div(4, 5), minimum |-> 0]
    /\ ret.exc = ""
    /\ ret.val[1][1] = <<true_div(3, 5), true_div(3, 5), true_div(7, 5), true_div(7, 5),
                         true_div(3, 5)>>
    /\ ret.val[2][1] = <<0, 5, 5, 0, 0>>

\* C6: called with exactly one bar, bars applies a deterministic fallback and
\* returns one closed polygon instead of a division failure.
C6_SingleBarFallback ==
    (pc = "bars" /\ Len(arg.x) = 1 /\ Len(arg.y) = 1) =>
        /\ ret.exc = ""
        /\ Len(ret.val[1]) = 1 /\ Len(ret.val[2]) = 1
        /\ Closed(ret.val[1][1], ret.val[2][1])

\* C7: called with x and y of different lengths, bars rejects the call with
\* InvalidInputShape before any polygon is computed.
C7_MismatchRejected ==
    (pc = "bars" /\ Len(arg.x) # Len(arg.y)) =>
        /\ ret.exc = "InvalidInputShape"
        /\ ret.done = 0

(***************************************************************************)
(* hist_data                                                               *)
(***************************************************************************)
RECURSIVE GCD(_, _)
GCD(a, b) == IF b = 0 THEN a ELSE GCD(b, a % b)

\* the exact fraction n / d in lowest terms, d > 0
Frac(n, d) == LET g == GCD(Abs(n), d) IN [n |-> n \div g, d |-> d \div g]

\* linspace(lower, upper, length): length evenly spaced values from lower to
\* upper inclusive; value k is lower + part * (upper - lower) for the exact
\* fraction part = (k - 1) / (length - 1)
linspace(lower, upper, length) ==
    [k \in 1..length |->
        [lower |-> lower, upper |-> upper,
         part |-> IF length = 1 THEN Frac(0, 1) ELSE Frac(k - 1, length - 1)]]

\* a sample as a double: float(i) is exact for the ints of the model
num_float(q) == IF q.int THEN float_of_int(q.i) ELSE q.f

\* a < b, a = b for ints and floats (Python compares the values)
num_less(a, b) == float_less(num_float(a), num_float(b))

num_eq(a, b) == num_float(a) = num_float(b)

\* a - b: an int for two ints, else a float
num_sub(a, b) ==
    IF a.int /\ b.int THEN IntNum(a.i - b.i)
    ELSE FloatNum(float_sub(num_float(a), num_float(b)))

\* a / b for a >= 0 and b > 0: true division of two ints, else float division
num_div(a, b) ==
    IF a.int /\ b.int THEN true_div(a.i, b.i)
    ELSE float_div(num_float(a), num_float(b))

num_is_zero(q) == IF q.int THEN q.i = 0 ELSE q.f.z

\* line 58: min(data) and max(data) give the first of the smallest / largest
py_min(data) ==
    data[CHOOSE i \in 1..Len(data) :
            /\ \A j \in 1..Len(data) : ~ num_less(data[j], data[i])
            /\ \A j \in 1..(i - 1) : num_less(data[i], data[j])]

py_max(data) ==
    data[CHOOSE i \in 1..Len(data) :
            /\ \A j \in 1..Len(data) : ~ num_less(data[i], data[j])
            /\ \A j \in 1..(i - 1) : num_less(data[j], data[i])]

\* line 59: el != M is false, the sample goes to bucket bins - 1
is_maximum(el, M) == num_eq(el, M)

\* lines 59-60: int((el - m) / (M - m) * bins) in double arithmetic, M # m
scaled_index(el, m, M, bins) ==
    float_int(float_mul(num_div(num_sub(el, m), num_sub(M, m)), float_of_int(bins)))

\* lines 62-64: histy[el] += 1 for every el of idx, from [0] * bins; a Python
\* list takes the indices -bins..bins-1
index_ok(el, bins) == -bins <= el /\ el < bins

counts(idx, bins) ==
    [b \in 1..bins |->
        Cardinality({i \in 1..Len(idx) : (IF idx[i] < 0 THEN idx[i] + bins ELSE idx[i]) = b - 1})]

\* lines 54-65
hist_data(data, bins) ==
    IF data = <<>> THEN Value(<<<<>>, <<>>>>)
    ELSE LET m == py_min(data)
             M == py_max(data)
         IN  IF \E i \in 1..Len(data) : ~ is_maximum(data[i], M) /\ num_is_zero(num_sub(M, m))
                THEN [exc |-> "ZeroDivisionError", val |-> <<>>]
             ELSE LET idx == [i \in 1..Len(data) |->
                                 IF ~ is_maximum(data[i], M)
                                    THEN scaled_index(data[i], m, M, bins)
                                    ELSE bins - 1]
                  IN  IF \E i \in 1..Len(idx) : ~ index_ok(idx[i], bins)
                         THEN [exc |-> "IndexError", val |-> <<>>]
                         ELSE Value(<<linspace(m, M, bins), counts(idx, bins)>>)

(***************************************************************************)
(* The histogram binner: one call of hist_data on a list of samples, ints  *)
(* or floats, and a number of bins >= 1.                                   *)
(***************************************************************************)
MaxData == 3

MaxSample == 2

MaxBins == 4

\* [0, 15, 22] with 22 bins has the quotient 15 / 22 round down
IntSamples == ((-1)..MaxSample) \cup {15, 22}

\* the floats -100.0, 0.3 and 0.1 + 0.2: 0.3 - -100.0 and (0.1 + 0.2) - -100.0
\* round to the same double
FloatSamples == {float_of_int(-100), true_div(3, 10),
                 float_add(true_div(1, 10), true_div(1, 5))}

Samples == {IntNum(i) : i \in IntSamples} \cup {FloatNum(f) : f \in FloatSamples}

BinCounts == (1..MaxBins) \cup {22}

InitHist ==
    /\ registry = <<>>
    /\ pc = "call"
    /\ arg \in [data : SeqsUpTo(Samples, MaxData), bins : BinCounts]
    /\ ret = Value(<<>>)

CallHistData ==
    /\ pc = "call"
    /\ pc' = "hist_data"
    /\ ret' = hist_data(arg.data, arg.bins)
    /\ UNCHANGED <<registry, arg>>

NextHist == CallHistData

SpecHist == InitHist /\ [][NextHist]_vars

RECURSIVE SumSeq(_)
SumSeq(q) == IF q = <<>> THEN 0 ELSE Head(q) + SumSeq(Tail(q))

\* C4: for every non-empty sample list and bins >= 1, identical samples
\* included, hist_data completes without a division failure and returns
\* exactly bins non-negative counts whose sum is the number of samples.
C4_CountConservation ==
    (pc = "hist_data" /\ arg.data # <<>>) =>
        /\ ret.exc = ""
        /\ Len(ret.val[2]) = arg.bins
        /\ \A b \in 1..arg.bins : ret.val[2][b] >= 0
        /\ SumSeq(ret.val[2]) = Len(arg.data)

\* The exact value of a sample is Magnitude * 2^Exponent, negated when
\* Negative; Scaled is its size in units of 2^e0, e0 <= Exponent.
Negative(q) == IF q.int THEN q.i < 0 ELSE q.f.neg

Magnitude(q) == IF q.int THEN NatDigits(Abs(q.i)) ELSE Significand(q.f)

Exponent(q) == IF q.int \/ q.f.z THEN 0 ELSE q.f.e - 52

Scaled(q, e0) == NatShift(Magnitude(q), Exponent(q) - e0)

\* a < b, exactly
Below(a, b) ==
    LET e0 == Min2(Exponent(a), Exponent(b)) IN
    IF Negative(a) # Negative(b) THEN Negative(a)
    ELSE IF Negative(a) THEN NatLess(Scaled(b, e0), Scaled(a, e0))
    ELSE NatLess(Scaled(a, e0), Scaled(b, e0))

Same(a, b) == ~ Below(a, b) /\ ~ Below(b, a)

\* a - b in units of 2^e0, exactly, for a >= b
Gap(a, b, e0) ==
    IF Negative(a) = Negative(b) THEN NatDistance(Scaled(a, e0), Scaled(b, e0))
    ELSE NatPlus(Scaled(a, e0), Scaled(b, e0))

Lowest(data) == CHOOSE s \in Range(data) : \A t \in Range(data) : ~ Below(t, s)

Highest(data) == CHOOSE s \in Range(data) : \A t \in Range(data) : ~ Below(s, t)

\* the bucket of the sample s: bins - 1 for the maximum, otherwise the k with
\* k <= (s - m) / (M - m) * bins < k + 1
ExpectedBucket(s, m, M, bins) ==
    IF Same(s, M) THEN bins - 1
    ELSE LET e0 == Min2(Exponent(s), Min2(Exponent(m), Exponent(M)))
             n  == NatTimes(Gap(s, m, e0), bins)
             d  == Gap(M, m, e0)
         IN  CHOOSE k \in 0..bins :
                 ~ NatLess(n, NatTimes(d, k)) /\ NatLess(n, NatTimes(d, k + 1))

\* C10: with minimum m < maximum M, every sample s is counted in bucket
\* floor((s - m) / (M - m) * bins), a sample equal to M in bucket bins - 1;
\* every bucket used lies in 0..bins-1 and the minimum is counted in bucket 0.
C10_BucketIndex ==
    (pc = "hist_data" /\ arg.data # <<>>
        /\ Below(Lowest(arg.data), Highest(arg.data))) =>
        LET m == Lowest(arg.data)
            M == Highest(arg.data)
            n == Len(arg.data)
        IN  /\ ret.exc = ""
            /\ Len(ret.val[2]) = arg.bins
            /\ \A i \in 1..n : ExpectedBucket(arg.data[i], m, M, arg.bins) \in 0..(arg.bins - 1)
            /\ \A b \in 0..(arg.bins - 1) :
                  ret.val[2][b + 1] =
                      Cardinality({i \in 1..n : ExpectedBucket(arg.data[i], m, M, arg.bins) = b})
            /\ ExpectedBucket(m, m, M, arg.bins) = 0
            /\ ret.val[2][1] >= Cardinality({i \in 1..n : Same(arg.data[i], m)})

====
